---------------------------- MODULE Spec2Model ----------------------------
(***************************************************************************)
(* Gatsibo Smart Irrigation Scheduler (src/app.py): the forecast           *)
(* acquisition with its time-bucketed cache, the weekly demand calculator, *)
(* the uncertainty estimator and the event splitter.                       *)
(*                                                                         *)
(* Arithmetic.  Python floats are modelled by exact rationals              *)
(* [n |-> numerator, d |-> denominator] kept in lowest terms (d > 0);      *)
(* IEEE rounding of the intermediate results is not modelled, round(x, 2)  *)
(* is.  Fixed-point units of the data frames:                              *)
(*   rainfall_mm, et0_mm           1/100  mm                               *)
(*   temp_max                      1/10   degree                           *)
(*   Kc, soil fraction             1/20                                    *)
(*   ETc_mm, eff_rain_mm, weekly_* 1/2000 mm                               *)
(*   efficiency                    1/100                                   *)
(*   depth_mm, volume_m3, duration_hr of an event   1/100 (two decimals)   *)
(***************************************************************************)
EXTENDS Integers, Sequences, FiniteSets, TLC

VARIABLES
    now,          \* wall clock, seconds (the cache's timer)
    cache,        \* st.cache_data entry of get_live_forecast: NoEntry or [df, at]
    forecast,     \* module-level `forecast` of the last script run (app.py:248)
    run,          \* what the last script run met and produced (app.py:247-269);
                  \* bad_answer: the provider's answer, had it been asked,
                  \* was a failure or had zero rows
    hist,         \* history: the last non-empty live fetch no forced refresh has dropped
    config,       \* the sidebar's widget values (app.py:210-216)
    calc_in,      \* arguments of a compute_weekly_irrigation / uncertainty_band_weekly call
    calc_out,     \* the caller's frame after the call, and the values returned
    split_args,   \* arguments of a split_irrigation call
    split_ret     \* its outcome: [called, raised, events]

vars == <<now, cache, forecast, run, hist, config, calc_in, calc_out, split_args, split_ret>>

-----------------------------------------------------------------------------
(* Exact rationals                                                         *)

Abs(x) == IF x < 0 THEN -x ELSE x
Max(a, b) == IF a >= b THEN a ELSE b
Min(a, b) == IF a <= b THEN a ELSE b

RECURSIVE GCD(_, _)
GCD(a, b) == IF b = 0 THEN a ELSE GCD(b, a % b)

Rat(n, d) ==
    LET g == GCD(Abs(n), Abs(d))
        s == IF d < 0 THEN -1 ELSE 1
    IN  [n |-> (s * n) \div g, d |-> (s * d) \div g]

RInt(k) == [n |-> k, d |-> 1]
\* the product is cancelled crosswise before it is formed
RMul(a, b) ==
    LET g1 == GCD(Abs(a.n), b.d)
        g2 == GCD(Abs(b.n), a.d)
    IN  Rat((a.n \div g1) * (b.n \div g2), (a.d \div g2) * (b.d \div g1))
RDiv(a, b) == RMul(a, IF b.n < 0 THEN [n |-> -b.d, d |-> -b.n] ELSE [n |-> b.d, d |-> b.n])
RLe(a, b) == a.n * b.d <= b.n * a.d
RLt(a, b) == a.n * b.d < b.n * a.d
RMax(a, b) == IF RLe(b, a) THEN a ELSE b

\* int(np.ceil(x))
Ceil(x) == IF x.n >= 0 THEN (x.n + x.d - 1) \div x.d ELSE -((-x.n) \div x.d)

\* round(x, 2) of a non-negative x, in hundredths; Python rounds the exact
\* value to the nearest hundredth, an exact tie to the even one.
Round2(x) ==
    LET m == x.n * 100
        q == m \div x.d
        r == m % x.d
    IN  IF 2 * r < x.d THEN q
        ELSE IF 2 * r > x.d THEN q + 1
        ELSE IF q % 2 = 0 THEN q ELSE q + 1

-----------------------------------------------------------------------------
(* Python values that reach split_irrigation                               *)

None == [kind |-> "None", n |-> 0, d |-> 1]
Text == [kind |-> "text", n |-> 0, d |-> 1]
NaN == [kind |-> "nan", n |-> 0, d |-> 1]
PosInf == [kind |-> "inf", n |-> 1, d |-> 1]
NegInf == [kind |-> "inf", n |-> -1, d |-> 1]
Num(n, d) == [kind |-> "num"] @@ Rat(n, d)
NumOf(r) == [kind |-> "num", n |-> r.n, d |-> r.d]
RatOf(v) == [n |-> v.n, d |-> v.d]

IsNum(v) == v.kind = "num"
\* v <= 0 as Python floats compare: every comparison with NaN is False
PyLeZero(v) == \/ v.kind = "num" /\ v.n <= 0
               \/ v.kind = "inf" /\ v.n < 0

NoDuration == [some |-> FALSE, v |-> 0]
Duration(h) == [some |-> TRUE, v |-> h]

Returned(evs) == [called |-> TRUE, raised |-> FALSE, events |-> evs]
Raised == [called |-> TRUE, raised |-> TRUE, events |-> <<>>]
NotCalled == [called |-> FALSE, raised |-> FALSE, events |-> <<>>]

DefaultDmax == 25

\* the loop of app.py:168-175; per_event_mm, per_event_m3 are rationals
BuildEvents(n, per_event_mm, per_event_m3, pump_rate_m3h) ==
    [i \in 1..n |->
        [event |-> i,
         depth_mm |-> Round2(per_event_mm),
         volume_m3 |-> Round2(per_event_m3),
         duration_hr |->
            IF pump_rate_m3h.kind = "num" /\ pump_rate_m3h.n > 0
            THEN Duration(Round2(RDiv(per_event_m3, RatOf(pump_rate_m3h))))
            ELSE NoDuration]]

\* SplitCount without the caller's cap
SplitCount_uncapped(n_min, n_splits) == Max(1, n_min)

\* n = min(max(1, n_min), max(1, int(n_splits)))
SplitCount(n_min, n_splits) == Min(Max(1, n_min), Max(1, n_splits))

\* area_m2 = max(0.0001, float(area_ha)) * 10000.0, area_ha in 1/100 ha
AreaM2(area_ha) == RMul(RMax(Rat(1, 10000), Rat(area_ha, 100)), RInt(10000))

\* if dmax_event_mm is None or dmax_event_mm <= 0: dmax_event_mm = 25.0
Dmax(dmax_event_mm) ==
    IF dmax_event_mm.kind = "None" \/ PyLeZero(dmax_event_mm)
    THEN RInt(DefaultDmax) ELSE RatOf(dmax_event_mm)

\* n_min = int(np.ceil(total_mm / dmax_event_mm))
NMin(total, dmax) == Ceil(RDiv(total, dmax))

\* app.py:165-176 once n is known
EventsOf(n, per_event_mm, area_m2, pump_rate_m3h) ==
    Returned(BuildEvents(n, per_event_mm, RMul(RDiv(per_event_mm, RInt(1000)), area_m2),
                         pump_rate_m3h))

SplitInto(total, n, area_ha, pump_rate_m3h) ==
    EventsOf(n, RDiv(total, RInt(n)), AreaM2(area_ha), pump_rate_m3h)

split_irrigation(total_mm, area_ha, n_splits, dmax_event_mm, pump_rate_m3h) ==
    IF total_mm.kind = "None" THEN Returned(<<>>)
    ELSE IF total_mm.kind = "text" THEN Returned(<<>>)      \* float() raised
    ELSE IF PyLeZero(total_mm) \/ n_splits <= 0 THEN Returned(<<>>)
    \* int(np.ceil(nan)) raises ValueError, int(np.ceil(inf)) OverflowError
    ELSE IF ~IsNum(total_mm) THEN Raised
    ELSE SplitInto(RatOf(total_mm),
                   SplitCount(NMin(RatOf(total_mm), Dmax(dmax_event_mm)), n_splits),
                   area_ha, pump_rate_m3h)

-----------------------------------------------------------------------------
(* Data frames and the heap they live on                                   *)
(*                                                                         *)
(* A frame holds its columns as sequences of one length; `cols` names the  *)
(* columns present (an absent column is <<>>).  The date column carries no *)
(* value any computation reads and is left out.  Frames are Python         *)
(* objects: a heap is a sequence of frames and a reference an index into   *)
(* it, so that an assignment to a column through one reference is seen     *)
(* through every other reference to the same object.                       *)

BaseCols == {"temp_max", "rainfall_mm", "et0_mm"}

Frame(temp, rain, et0) ==
    [cols |-> BaseCols, temp_max |-> temp, rainfall_mm |-> rain, et0_mm |-> et0,
     Kc |-> <<>>, ETc_mm |-> <<>>, eff_rain_mm |-> <<>>]

EmptyFrame == Frame(<<>>, <<>>, <<>>)
NRows(f) == Len(f.rainfall_mm)

\* copy that hands back the same object
copy_alias(heap, ref) == [heap |-> heap, ref |-> ref]

\* df.copy(): a new object with the same contents
copy(heap, ref) == [heap |-> Append(heap, heap[ref]), ref |-> Len(heap) + 1]

\* df[name] = values
SetColumn(heap, ref, name, values) ==
    [heap EXCEPT ![ref] = [[@ EXCEPT ![name] = values] EXCEPT !.cols = @ \cup {name}]]

RECURSIVE Sum(_)
Sum(s) == IF s = <<>> THEN 0 ELSE Head(s) + Sum(Tail(s))

\* column * (num/10), exact on the one-decimal values the series hold
RECURSIVE Scale(_, _)
Scale(col, num) ==
    IF col = <<>> THEN <<>> ELSE <<(Head(col) * num) \div 10>> \o Scale(Tail(col), num)

\* df[name] = scalar: the scalar on every row
RECURSIVE Broadcast(_, _)
Broadcast(rows, x) == IF rows = 0 THEN <<>> ELSE <<x>> \o Broadcast(rows - 1, x)

\* column * column, row by row
RECURSIVE ColMul(_, _)
ColMul(a, b) ==
    IF a = <<>> THEN <<>> ELSE <<Head(a) * Head(b)>> \o ColMul(Tail(a), Tail(b))

-----------------------------------------------------------------------------
(* Crop and soil tables, app.py:24-38, in 1/20                             *)

CROP_KC ==
    [Maize |-> <<6, 21, 24>>, Rice |-> <<14, 21, 23>>, Vegetables |-> <<8, 20, 23>>,
     Beans |-> <<7, 18, 21>>, Pasture |-> <<10, 20, 24>>, Custom |-> <<8, 20, 24>>]

SOIL_EFFECTIVE_RAIN == [Sandy |-> 18, Loam |-> 12, Clay |-> 8]

DefaultSoilFraction == 12
EfficiencyFloor == 5

kc_from_stage(crop, stage) ==
    LET kc == IF crop \in DOMAIN CROP_KC THEN CROP_KC[crop] ELSE CROP_KC["Custom"]
    IN  IF stage = "Initial" THEN kc[1]
        ELSE IF stage = "Mid" THEN kc[2]
        ELSE kc[3]

effective_rainfall(p_raw_mm, soil_type) ==
    LET f == IF soil_type \in DOMAIN SOIL_EFFECTIVE_RAIN
             THEN SOIL_EFFECTIVE_RAIN[soil_type] ELSE DefaultSoilFraction
    IN  p_raw_mm * f

\* column.apply(lambda x: effective_rainfall(x, soil_type))
RECURSIVE ApplyEffectiveRainfall(_, _)
ApplyEffectiveRainfall(col, soil_type) ==
    IF col = <<>> THEN <<>>
    ELSE <<effective_rainfall(Head(col), soil_type)>>
            \o ApplyEffectiveRainfall(Tail(col), soil_type)

\* GrossNeed multiplying by the efficiency
GrossNeed_times(net_need, efficiency) ==
    RMul(RInt(net_need), Rat(Max(EfficiencyFloor, efficiency), 100))

\* gross_need = net_need / max(0.05, efficiency)
GrossNeed(net_need, efficiency) ==
    RDiv(RInt(net_need), Rat(Max(EfficiencyFloor, efficiency), 100))

\* df["Kc"] = kc; df["ETc_mm"] = ...; df["eff_rain_mm"] = ...   (app.py:121-123)
AddKc(heap, df, kc) == SetColumn(heap, df, "Kc", Broadcast(NRows(heap[df]), kc))
AddETc(heap, df) == SetColumn(heap, df, "ETc_mm", ColMul(heap[df].et0_mm, heap[df].Kc))
AddEffRain(heap, df, soil_type) ==
    SetColumn(heap, df, "eff_rain_mm",
              ApplyEffectiveRainfall(heap[df].rainfall_mm, soil_type))

\* the weekly sums and the result dict (app.py:125-137)
Summary(heap, df, weekly_ETc, weekly_eff_rain, kc, efficiency) ==
    [heap |-> heap,
     res |-> [daily |-> heap[df],
              weekly_ETc_mm |-> weekly_ETc,
              weekly_eff_rain_mm |-> weekly_eff_rain,
              weekly_net_mm |-> Max(0, weekly_ETc - weekly_eff_rain),
              weekly_gross_mm |->
                  GrossNeed(Max(0, weekly_ETc - weekly_eff_rain), efficiency),
              kc_used |-> kc]]

WeeklySums(heap, df, kc, efficiency) ==
    Summary(heap, df, Sum(heap[df].ETc_mm), Sum(heap[df].eff_rain_mm), kc, efficiency)

ComputeOn(c, kc, soil_type, efficiency) ==
    WeeklySums(AddEffRain(AddETc(AddKc(c.heap, c.ref, kc), c.ref), c.ref, soil_type),
               c.ref, kc, efficiency)

\* Returns the heap after the call and the summary dict; `daily` is the
\* augmented frame itself, the rest in 1/2000 mm (kc_used in 1/20).
compute_weekly_irrigation(heap, forecast_df, crop, stage, soil_type, efficiency) ==
    ComputeOn(copy(heap, forecast_df), kc_from_stage(crop, stage), soil_type, efficiency)

\* df[name] = df[name] * (num/10)
ScaleColumn(heap, ref, name, num) == SetColumn(heap, ref, name, Scale(heap[ref][name], num))

PerturbOn(c, rain, et0) ==
    [heap |-> ScaleColumn(ScaleColumn(c.heap, c.ref, "rainfall_mm", rain),
                          c.ref, "et0_mm", et0),
     ref |-> c.ref]

\* the perturbed copy of a scenario: rainfall * rain/10, et0 * et0/10
Perturb(heap, ref, rain, et0) == PerturbOn(copy(heap, ref), rain, et0)

\* LowScenario with the factors of the high one
LowScenario_swapped(heap, ref) == Perturb(heap, ref, 8, 11)

LowScenario(heap, ref) == Perturb(heap, ref, 12, 9)
HighScenario(heap, ref) == Perturb(heap, ref, 8, 11)

ComputeScenario(s, crop, stage, soil_type, efficiency) ==
    compute_weekly_irrigation(s.heap, s.ref, crop, stage, soil_type, efficiency)

BandResult(m, l, h) ==
    [heap |-> h.heap,
     res |-> [low_mm |-> l.res.weekly_gross_mm,
              med_mm |-> m.res.weekly_gross_mm,
              high_mm |-> h.res.weekly_gross_mm]]

\* app.py:191-196, the high scenario
BandHigh(m, l, df, crop, stage, soil_type, efficiency) ==
    BandResult(m, l, ComputeScenario(HighScenario(l.heap, df), crop, stage, soil_type,
                                     efficiency))

\* app.py:186-190, the low scenario
BandLow(m, df, crop, stage, soil_type, efficiency) ==
    BandHigh(m, ComputeScenario(LowScenario(m.heap, df), crop, stage, soil_type,
                                efficiency),
             df, crop, stage, soil_type, efficiency)

\* app.py:184-185, the median on df, the function's own copy
BandMed(c, crop, stage, soil_type, efficiency) ==
    BandLow(ComputeScenario(c, crop, stage, soil_type, efficiency), c.ref,
            crop, stage, soil_type, efficiency)

uncertainty_band_weekly(heap, forecast_df, crop, stage, soil_type, efficiency) ==
    BandMed(copy(heap, forecast_df), crop, stage, soil_type, efficiency)

-----------------------------------------------------------------------------
(* The fixed demo series of safe_get_forecast, app.py:90-95                *)

DemoSeries ==
    Frame(<<254, 252, 264, 250, 226, 257, 251>>,
          <<0, 80, 190, 990, 1260, 570, 180>>,
          <<400, 370, 450, 340, 210, 400, 340>>)

-----------------------------------------------------------------------------
(* Calls of the calculator and of the estimator on bounded inputs          *)

MaxDays == 2

\* one-decimal values in 1/100 mm; a crop and a soil the tables do not hold;
\* efficiencies below, at and above the floor, at 1 and beyond it
RainChoices == {0, 100, 600}
Et0Choices == {0, 300}
CropChoices == {"Maize", "Sorghum"}
StageChoices == {"Initial", "Mid", "Late"}
SoilChoices == {"Sandy", "Peat"}
EfficiencyChoices == {0, 3, 5, 80, 100, 120}

SeriesOfLen(k) ==
    {Frame([i \in 1..k |-> 250], rain, et0) :
        rain \in [1..k -> RainChoices], et0 \in [1..k -> Et0Choices]}

\* a week with rain and evapotranspiration on every day
WetWeek ==
    Frame(<<240, 238, 251, 246, 229, 243, 250>>,
          <<20, 150, 10, 340, 60, 10, 90>>,
          <<380, 310, 420, 290, 350, 410, 360>>)

CalcSeries == {DemoSeries, WetWeek} \cup UNION {SeriesOfLen(k) : k \in 1..MaxDays}

NoRes ==
    [daily |-> EmptyFrame, weekly_ETc_mm |-> 0, weekly_eff_rain_mm |-> 0,
     weekly_net_mm |-> 0, weekly_gross_mm |-> RInt(0), kc_used |-> 0]
NoBand == [low_mm |-> RInt(0), med_mm |-> RInt(0), high_mm |-> RInt(0)]

CalcIdle == [df0 |-> EmptyFrame, crop |-> "Custom", stage |-> "Mid",
             soil_type |-> "Loam", efficiency |-> 80]
CalcNone == [df |-> EmptyFrame, has_res |-> FALSE, res |-> NoRes,
             has_band |-> FALSE, band |-> NoBand, res_after_band |-> FALSE]
SplitIdle == [total_mm |-> None, area_ha |-> 100, n_splits |-> 2,
              dmax_event_mm |-> None, pump_rate_m3h |-> None]

InitCalc ==
    /\ calc_in \in [df0 : CalcSeries, crop : CropChoices, stage : StageChoices,
                    soil_type : SoilChoices, efficiency : EfficiencyChoices]
    /\ calc_out = [CalcNone EXCEPT !.df = calc_in.df0]

\* the locals die with the call; the caller's frame is heap[1]
ComputeReturns(r) ==
    /\ calc_out' = [calc_out EXCEPT !.df = r.heap[1], !.has_res = TRUE, !.res = r.res,
                                    !.res_after_band = calc_out.has_band]
    /\ UNCHANGED <<now, cache, forecast, run, hist, config, calc_in, split_args, split_ret>>

\* res = compute_weekly_irrigation(df, crop, stage, soil, efficiency)
CallCompute ==
    ComputeReturns(compute_weekly_irrigation(<<calc_out.df>>, 1, calc_in.crop,
                                             calc_in.stage, calc_in.soil_type,
                                             calc_in.efficiency))

BandReturns(r) ==
    /\ calc_out' = [calc_out EXCEPT !.df = r.heap[1], !.has_band = TRUE, !.band = r.res]
    /\ UNCHANGED <<now, cache, forecast, run, hist, config, calc_in, split_args, split_ret>>

\* band = uncertainty_band_weekly(df, crop, stage, soil, efficiency)
CallBand ==
    BandReturns(uncertainty_band_weekly(<<calc_out.df>>, 1, calc_in.crop, calc_in.stage,
                                        calc_in.soil_type, calc_in.efficiency))

-----------------------------------------------------------------------------
(* Calls of the splitter on bounded inputs                                 *)

MaxTotalSteps == 12
MaxSplits == 3

\* total_mm: every 5 mm up to the bound, two values with more decimals, a
\* negative one and the values that are no finite number
TotalChoices ==
    {None, Text, NaN, PosInf, NegInf, Num(-5, 1), Num(201, 20), Num(1234, 100)}
        \cup {Num(5 * k, 1) : k \in 0..MaxTotalSteps}
DmaxChoices == {None, Num(0, 1), Num(-5, 1), Num(5, 1), Num(25, 1), Num(200, 1)}
AreaChoices == {0, 1, 100, 250}
PumpChoices == {None, Num(0, 1), Num(50, 1)}

InitSplit ==
    /\ split_args \in [total_mm : TotalChoices, area_ha : AreaChoices,
                       n_splits : -1..MaxSplits, dmax_event_mm : DmaxChoices,
                       pump_rate_m3h : PumpChoices]
    /\ split_ret = NotCalled

CallSplit ==
    /\ ~split_ret.called
    /\ split_ret' = split_irrigation(split_args.total_mm, split_args.area_ha,
                                     split_args.n_splits, split_args.dmax_event_mm,
                                     split_args.pump_rate_m3h)
    /\ UNCHANGED <<now, cache, forecast, run, hist, config, calc_in, calc_out, split_args>>

-----------------------------------------------------------------------------
(* Forecast acquisition, app.py:41-96                                      *)

TTL == 86400

NoEntry == [has |-> FALSE, df |-> EmptyFrame, at |-> 0]
Entry(df, at) == [has |-> TRUE, df |-> df, at |-> at]

\* What the provider can answer to one request.  "bad_body" is a body that
\* r.json() or the DataFrame constructor rejects (columns of unequal length).
Live7 ==
    Frame(<<260, 255, 248, 251, 262, 259, 247>>,
          <<0, 120, 0, 30, 250, 0, 60>>,
          <<410, 380, 420, 400, 330, 430, 390>>)
Live7Dry ==
    Frame(<<290, 295, 301, 298, 300, 296, 299>>,
          <<0, 0, 0, 0, 0, 0, 0>>,
          <<600, 610, 620, 600, 590, 610, 600>>)
Short3 == Frame(<<260, 255, 248>>, <<0, 120, 0>>, <<410, 380, 420>>)
Long8 ==
    Frame(<<260, 255, 248, 251, 262, 259, 247, 250>>,
          <<0, 120, 0, 30, 250, 0, 60, 10>>,
          <<410, 380, 420, 400, 330, 430, 390, 400>>)

Failures == {"network_error", "timeout", "http_error", "bad_body"}
Answer(kind, df) == [kind |-> kind, df |-> df]
ProviderAnswers ==
    {Answer(k, EmptyFrame) : k \in Failures}
        \cup {Answer("ok", df) : df \in {EmptyFrame, Short3, Live7, Live7Dry, Long8}}

\* the body of get_live_forecast: requests.get, raise_for_status, json, DataFrame
FetchBody(answer) ==
    IF answer.kind \in Failures
    THEN [raised |-> TRUE, df |-> EmptyFrame]
    ELSE [raised |-> FALSE, df |-> answer.df]

\* an entry of st.cache_data(ttl=86400) answers until it is ttl seconds old
Fresh(c, t) == c.has /\ t < c.at + TTL

\* a miss: what the body returns is stored; an exception is not a return
\* value and stores nothing
Miss(b, t) ==
    [cache |-> IF b.raised THEN NoEntry ELSE Entry(b.df, t),
     raised |-> b.raised, df |-> b.df, contacted |-> TRUE]

\* get_live_forecast() through its cache: a fresh entry is returned without
\* running the body
get_live_forecast(c, t, answer) ==
    IF Fresh(c, t)
    THEN [cache |-> c, raised |-> FALSE, df |-> c.df, contacted |-> FALSE]
    ELSE Miss(FetchBody(answer), t)

\* clear that leaves the entry in place
clear_keeps(c) == c

\* get_live_forecast.clear(); should it raise, st.cache_data.clear() empties
\* every cache instead (app.py:72-80): either way the entry is gone
clear(c) == NoEntry

\* RaiseIfEmpty without the test
RaiseIfEmpty_unchecked(r) == r

\* if df is None or df.empty: raise ValueError
RaiseIfEmpty(r) == [r EXCEPT !.raised = r.raised \/ NRows(r.df) = 0]

\* the try block of app.py:82-86
TryLive(c, t, answer) == RaiseIfEmpty(get_live_forecast(c, t, answer))

\* the except branch: `except Exception` takes whatever the try block
\* raised, warns and builds the demo frame, so the function only returns
Recover(r) ==
    [cache |-> r.cache,
     contacted |-> r.contacted,
     fell_back |-> r.raised,
     raised |-> FALSE,
     df |-> IF r.raised THEN DemoSeries ELSE r.df]

safe_get_forecast(c, t, force_refresh, answer) ==
    Recover(TryLive(IF force_refresh THEN clear(c) ELSE c, t, answer))

-----------------------------------------------------------------------------
(* One run of the script, app.py:247-269                                   *)

\* weekly_gross_mm (1/2000 mm) as the millimetres split_irrigation is given
Mm(x) == RDiv(x, RInt(2000))

\* n_splits = 2; if weekly_mm > 40: n_splits = 3
DashboardSplits(weekly_mm) == IF RLt(RInt(40), weekly_mm) THEN 3 ELSE 2

NoRun ==
    [called |-> FALSE, force |-> FALSE, bad_answer |-> FALSE, contacted |-> FALSE,
     fell_back |-> FALSE, raised |-> FALSE, calc |-> NoRes, band |-> NoBand,
     n_splits |-> 0, split |-> NotCalled]

\* events = split_irrigation(weekly_mm, area_ha, n_splits=n_splits, ...)
DashboardSplit(calc, b, weekly_mm, cfg) ==
    [forecast |-> b.heap[1], calc |-> calc, band |-> b.res,
     n_splits |-> DashboardSplits(weekly_mm),
     split |-> split_irrigation(NumOf(weekly_mm), cfg.area_ha, DashboardSplits(weekly_mm),
                                NumOf(RInt(cfg.max_event_depth)),
                                NumOf(RInt(cfg.pump_rate)))]

\* band = uncertainty_band_weekly(forecast, crop, stage, soil, efficiency)
DashboardBand(c, cfg) ==
    DashboardSplit(c.res,
                   uncertainty_band_weekly(c.heap, 1, cfg.crop, cfg.stage, cfg.soil,
                                           cfg.efficiency),
                   Mm(c.res.weekly_gross_mm), cfg)

\* the Dashboard page: calculator, estimator and splitter on `forecast`
Dashboard(df, cfg) ==
    DashboardBand(compute_weekly_irrigation(<<df>>, 1, cfg.crop, cfg.stage, cfg.soil,
                                            cfg.efficiency),
                  cfg)

MaxTicks == 3
TickSeconds == 43200

\* the widgets' defaults, and a second value for soil, efficiency and
\* max event depth, all inside the widgets' ranges
ConfigChoices ==
    [crop : {"Maize"}, stage : {"Mid"}, soil : {"Loam", "Clay"},
     area_ha : {100}, efficiency : {50, 80}, pump_rate : {50},
     max_event_depth : {5, 25}]

InitDashboard ==
    /\ now = 0
    /\ cache = NoEntry
    /\ forecast = EmptyFrame
    /\ run = NoRun
    /\ hist = NoEntry
    /\ config \in ConfigChoices

\* time passes between two interactions
Tick ==
    /\ now < MaxTicks * TickSeconds
    /\ now' = now + TickSeconds
    /\ UNCHANGED <<cache, forecast, run, hist, config, calc_in, calc_out,
                   split_args, split_ret>>

\* the script's effect once the forecast f and the page's values d are known
Script(force, answer, f, d) ==
    /\ cache' = f.cache
    /\ forecast' = d.forecast
    /\ run' = [called |-> TRUE, force |-> force,
               bad_answer |-> answer.kind \in Failures \/ NRows(answer.df) = 0,
               contacted |-> f.contacted, fell_back |-> f.fell_back,
               raised |-> f.raised, calc |-> d.calc, band |-> d.band,
               n_splits |-> d.n_splits, split |-> d.split]
    /\ hist' = IF f.contacted /\ ~f.fell_back THEN Entry(f.df, now)
               ELSE IF force THEN NoEntry
               ELSE hist
    /\ UNCHANGED <<now, config, calc_in, calc_out, split_args, split_ret>>

Render(force, answer, f) == Script(force, answer, f, Dashboard(f.df, config))

\* one interaction with the Dashboard page selected: the whole script runs
\* again (the other pages fetch the forecast and only render it)
Rerun(force, answer) ==
    Render(force, answer, safe_get_forecast(cache, now, force, answer))

Interact == \E force \in BOOLEAN, answer \in ProviderAnswers : Rerun(force, answer)

-----------------------------------------------------------------------------
(* Specifications                                                          *)

Init ==
    /\ InitDashboard
    /\ calc_in = CalcIdle /\ calc_out = CalcNone
    /\ split_args = SplitIdle /\ split_ret = NotCalled

Next == Tick \/ Interact

Spec == Init /\ [][Next]_vars

InitC ==
    /\ InitCalc
    /\ now = 0 /\ cache = NoEntry /\ forecast = EmptyFrame /\ run = NoRun
    /\ hist = NoEntry /\ config = CHOOSE c \in ConfigChoices : TRUE
    /\ split_args = SplitIdle /\ split_ret = NotCalled

NextC == CallCompute \/ CallBand

SpecCalc == InitC /\ [][NextC]_vars

InitS ==
    /\ InitSplit
    /\ now = 0 /\ cache = NoEntry /\ forecast = EmptyFrame /\ run = NoRun
    /\ hist = NoEntry /\ config = CHOOSE c \in ConfigChoices : TRUE
    /\ calc_in = CalcIdle /\ calc_out = CalcNone

NextS == CallSplit

SpecSplit == InitS /\ [][NextS]_vars

-----------------------------------------------------------------------------
(* Properties                                                              *)

Events == run.split.events
SplitEvents == split_ret.events
Total == RatOf(split_args.total_mm)

\* C1: every event the Dashboard's splitter call returns has
\* depth_mm <= the max event depth chosen in the sidebar.
C1_EventDepthWithinMax ==
    run.called =>
        \A i \in DOMAIN Events : Events[i].depth_mm <= config.max_event_depth * 100

\* C2: split_irrigation returns the empty sequence and raises nothing when
\* total_mm <= 0, total_mm is None, text, NaN or infinite, or n_splits <= 0.
C2_InvalidInputGivesEmpty ==
    (/\ split_ret.called
     /\ \/ split_args.total_mm.kind \in {"None", "text", "nan", "inf"}
        \/ split_args.total_mm.kind = "num" /\ split_args.total_mm.n <= 0
        \/ split_args.n_splits <= 0)
    => ~split_ret.raised /\ SplitEvents = <<>>

\* C3: safe_get_forecast never raises and never returns an empty series;
\* when the provider was asked and failed or answered zero rows, or the
\* call fell back for any reason, the series is the 7-row demo series.
C3_NeverRaisesNeverEmpty ==
    run.called =>
        /\ ~run.raised
        /\ NRows(forecast) > 0
        /\ (run.contacted /\ run.bad_answer => forecast = DemoSeries)
        /\ (run.fell_back => forecast = DemoSeries)

C3_Witness ==
    /\ run.called /\ run.contacted /\ run.bad_answer
    /\ forecast = DemoSeries /\ NRows(forecast) = 7

\* C4: the series handed to compute_weekly_irrigation always has exactly
\* 7 rows.
C4_AlwaysSevenRows == run.called => NRows(forecast) = 7

\* C5: while the last non-empty live fetch is less than TTL seconds old and
\* no forced refresh has dropped it, a call with force_refresh=False returns
\* that series without contacting the provider; every call with
\* force_refresh=True contacts the provider.
C5_ReuseWithinTTLRefetchOnForce ==
    [][now' = now =>
        /\ (~run'.force /\ hist.has /\ now < hist.at + TTL
               => forecast' = hist.df /\ ~run'.contacted)
        /\ (run'.force => run'.contacted)]_vars

C5_Witness ==
    /\ run.called /\ ~run.force /\ ~run.contacted
    /\ hist.has /\ hist.at < now /\ now < hist.at + TTL
    /\ forecast = hist.df /\ NRows(forecast) > 0

\* C10: after a call that ended in the demo fallback, the next call contacts
\* the provider, whatever force_refresh is.
C10_FallbackIsNotCached ==
    [][run.called /\ run.fell_back /\ now' = now => run'.contacted]_vars

NonNegative(df) ==
    \A i \in DOMAIN df.rainfall_mm : df.rainfall_mm[i] >= 0 /\ df.et0_mm[i] >= 0
Positive(df) ==
    \A i \in DOMAIN df.rainfall_mm : df.rainfall_mm[i] > 0 /\ df.et0_mm[i] > 0

Net == RInt(calc_out.res.weekly_net_mm)
Gross == calc_out.res.weekly_gross_mm

\* C6 as stated: for rainfall, et0 >= 0 and efficiency <= 1,
\* gross >= net, and gross = net iff efficiency = 1.
C6_GrossEqualsNetIffFullEfficiency ==
    calc_out.has_res /\ NonNegative(calc_in.df0) /\ calc_in.efficiency <= 100 =>
        /\ RLe(Net, Gross)
        /\ (Gross = Net <=> calc_in.efficiency = 100)

\* C6 amended: for rainfall, et0 >= 0 and efficiency <= 1, gross >= net;
\* gross = net if efficiency = 1, and when net > 0 only if efficiency = 1.
C6_GrossAtLeastNet ==
    calc_out.has_res /\ NonNegative(calc_in.df0) /\ calc_in.efficiency <= 100 =>
        /\ RLe(Net, Gross)
        /\ (calc_in.efficiency = 100 => Gross = Net)
        /\ (calc_out.res.weekly_net_mm > 0 /\ Gross = Net => calc_in.efficiency = 100)

C6_Witness ==
    /\ calc_out.has_res /\ NonNegative(calc_in.df0)
    /\ calc_in.efficiency < EfficiencyFloor
    /\ calc_out.res.weekly_net_mm > 0
    /\ Gross = RMul(Net, RInt(20))

\* C7: for a series whose rainfall and et0 are positive on every day,
\* low_mm <= med_mm <= high_mm.
C7_BandOrdered ==
    calc_out.has_band /\ Positive(calc_in.df0) =>
        /\ RLe(calc_out.band.low_mm, calc_out.band.med_mm)
        /\ RLe(calc_out.band.med_mm, calc_out.band.high_mm)

C7_Witness ==
    /\ calc_out.has_band /\ Positive(calc_in.df0)
    /\ RLt(calc_out.band.low_mm, calc_out.band.med_mm)
    /\ RLt(calc_out.band.med_mm, calc_out.band.high_mm)

\* what a first call on the series as it was given returns
FirstCall ==
    compute_weekly_irrigation(<<calc_in.df0>>, 1, calc_in.crop, calc_in.stage,
                              calc_in.soil_type, calc_in.efficiency).res

\* C8: after any sequence of calls of the two functions the caller's series
\* is as it was given (rows, columns, values), and the last
\* compute_weekly_irrigation returned the five values a first call returns.
C8_SeriesUntouched ==
    /\ calc_out.df = calc_in.df0
    /\ calc_out.has_res =>
        /\ calc_out.res.weekly_ETc_mm = FirstCall.weekly_ETc_mm
        /\ calc_out.res.weekly_eff_rain_mm = FirstCall.weekly_eff_rain_mm
        /\ calc_out.res.weekly_net_mm = FirstCall.weekly_net_mm
        /\ calc_out.res.weekly_gross_mm = FirstCall.weekly_gross_mm
        /\ calc_out.res.kc_used = FirstCall.kc_used

C8_Witness ==
    /\ calc_out.res_after_band
    /\ calc_out.df = calc_in.df0
    /\ NRows(calc_out.df) = 7
    /\ calc_out.res.weekly_net_mm > 0

\* the max depth the claim names: 25 when absent or non-positive
ClaimDmax ==
    IF split_args.dmax_event_mm.kind = "None" \/ split_args.dmax_event_mm.n <= 0
    THEN RInt(25) ELSE RatOf(split_args.dmax_event_mm)

\* ceil(total / dmax): the least k with k * dmax >= total
ClaimCeil ==
    CHOOSE k \in 0..(Total.n + 1) :
        /\ RLe(Total, RMul(RInt(k), ClaimDmax))
        /\ k > 0 => RLt(RMul(RInt(k - 1), ClaimDmax), Total)

ClaimCount == Min(Max(ClaimCeil, 1), split_args.n_splits)

SplitCase ==
    /\ split_ret.called
    /\ split_args.total_mm.kind = "num" /\ split_args.total_mm.n > 0
    /\ split_args.n_splits >= 1

\* C9 as stated: n = clamp(ceil(total / max depth), 1, n_splits) events,
\* indexed 1..n, each of depth exactly total / n.
C9_EqualExactDepths ==
    SplitCase =>
        /\ ~split_ret.raised
        /\ Len(SplitEvents) = ClaimCount
        /\ \A i \in DOMAIN SplitEvents :
            /\ SplitEvents[i].event = i
            /\ SplitEvents[i].depth_mm * ClaimCount * Total.d = 100 * Total.n

\* C9 amended: n = clamp(ceil(total / max depth), 1, n_splits) events,
\* indexed 1..n, all of one depth, which is total / n rounded to 2 decimals.
C9_EqualRoundedDepths ==
    SplitCase =>
        /\ ~split_ret.raised
        /\ Len(SplitEvents) = ClaimCount
        /\ \A i \in DOMAIN SplitEvents :
            /\ SplitEvents[i].event = i
            /\ SplitEvents[i].depth_mm = SplitEvents[1].depth_mm
            /\ 2 * Abs(SplitEvents[i].depth_mm * ClaimCount * Total.d - 100 * Total.n)
                   <= ClaimCount * Total.d

C9_Witness ==
    /\ SplitCase
    /\ Len(SplitEvents) = 3
    /\ SplitEvents[3].event = 3
    /\ SplitEvents[1].depth_mm * 3 * Total.d # 100 * Total.n

=============================================================================
